---- MODULE Spec2Model ----
(***************************************************************************)
(* The photo-collage card shuffler: six cards, six slots, a forward and a  *)
(* backward rotation, and the click handler that applies a rotation in     *)
(* timer-sequenced phases behind a re-entrancy guard.                      *)
(*                                                                         *)
(* React state set by a handler or a timer callback is taken to be         *)
(* committed when the callback returns, so each callback is one step.      *)
(* Timers are kept in scheduling order with the time left before they are  *)
(* due; a due timer fires before any timer due later, and timers due at    *)
(* the same instant fire in the order they were scheduled.  Clicks and     *)
(* viewport events may arrive between any two callbacks.                   *)
(***************************************************************************)
EXTENDS Integers, Sequences, FiniteSets, TLC

\* ------------------------------------------------------------------ bounds

\* Accepted triggers explored in one behaviour.
MaxShuffles == 6

\* --------------------------------------------------------------- constants

SHUFFLE_DELAY == 300

\* photoImages.length
PhotoCount == 12

CARD_A == "cardA"
CARD_B == "cardB"
CARD_C == "cardC"
CARD_D == "cardD"
CARD_E == "cardE"
CARD_F == "cardF"

CardId == {CARD_A, CARD_B, CARD_C, CARD_D, CARD_E, CARD_F}

CENTER == "center"
CENTER_BACK == "centerBack"
TOP_LEFT == "topLeft"
TOP_RIGHT == "topRight"
BOTTOM_LEFT == "bottomLeft"
BOTTOM_RIGHT == "bottomRight"

CardPosition == {CENTER, CENTER_BACK, TOP_LEFT, TOP_RIGHT, BOTTOM_LEFT, BOTTOM_RIGHT}

IDLE == "idle"
FLY_LEFT == "flyLeft"
FLY_RIGHT == "flyRight"
MOVE_TO_POSITION == "moveToPosition"
OFFSCREEN == "offscreen"
ONSCREEN == "onscreen"

\* POSITION_CONFIGS[position].flyDirection
FlyDirectionOf(position) ==
  CASE position = CENTER -> "right"
    [] position = CENTER_BACK -> "left"
    [] position = TOP_LEFT -> "left"
    [] position = TOP_RIGHT -> "right"
    [] position = BOTTOM_LEFT -> "left"
    [] position = BOTTOM_RIGHT -> "right"

\* POSITION_CONFIGS[position].zIndex
DefaultZIndexOf(position) ==
  CASE position = CENTER -> 5
    [] position = CENTER_BACK -> 0
    [] position = TOP_LEFT -> 4
    [] position = TOP_RIGHT -> 3
    [] position = BOTTOM_LEFT -> 2
    [] position = BOTTOM_RIGHT -> 1

getPositionConfig(position) ==
  [zIndex |-> DefaultZIndexOf(position), flyDirection |-> FlyDirectionOf(position)]

CARD_SEQUENCE == <<CARD_A, CARD_B, CARD_C, CARD_D, CARD_E, CARD_F>>

initializeCards ==
  << [id |-> CARD_A, position |-> CENTER,       zIndex |-> 5, photoIndex |-> 0, currentPhotoIndex |-> 0],
     [id |-> CARD_B, position |-> TOP_LEFT,     zIndex |-> 4, photoIndex |-> 1, currentPhotoIndex |-> 1],
     [id |-> CARD_C, position |-> TOP_RIGHT,    zIndex |-> 3, photoIndex |-> 2, currentPhotoIndex |-> 2],
     [id |-> CARD_D, position |-> BOTTOM_LEFT,  zIndex |-> 2, photoIndex |-> 3, currentPhotoIndex |-> 3],
     [id |-> CARD_E, position |-> BOTTOM_RIGHT, zIndex |-> 1, photoIndex |-> 4, currentPhotoIndex |-> 4],
     [id |-> CARD_F, position |-> CENTER_BACK,  zIndex |-> 0, photoIndex |-> 5, currentPhotoIndex |-> 5] >>

\* ----------------------------------------------------------- array helpers

Min(S) == CHOOSE x \in S : \A y \in S : x <= y

\* Mutant: a lookup by position that finds nothing falls back to the first card.
IndexAtPositionOrFirst(cards, position) ==
  LET hits == {i \in 1..Len(cards) : cards[i].position = position}
  IN IF hits = {} THEN 1 ELSE Min(hits)

\* Array.prototype.find by position: the 1-based index of the first match, 0 for none.
IndexAtPosition(cards, position) ==
  LET hits == {i \in 1..Len(cards) : cards[i].position = position}
  IN IF hits = {} THEN 0 ELSE Min(hits)

\* Array.prototype.find by id: the 1-based index of the first match, 0 for none.
IndexOfId(cards, cardId) ==
  LET hits == {i \in 1..Len(cards) : cards[i].id = cardId}
  IN IF hits = {} THEN 0 ELSE Min(hits)

\* CARD_SEQUENCE.indexOf(cardId): 0-based, -1 for none.
SequenceIndexOf(cardId) ==
  LET hits == {i \in 1..Len(CARD_SEQUENCE) : CARD_SEQUENCE[i] = cardId}
  IN IF hits = {} THEN -1 ELSE Min(hits) - 1

\* Mutant: the forward walk skips a card of the sequence.
getNextCardIdInSequenceSkipping(currentCardId, direction) ==
  LET currentIndex == SequenceIndexOf(currentCardId)
      nextIndex == IF direction = "forward"
                   THEN (currentIndex + 2) % Len(CARD_SEQUENCE)
                   ELSE (currentIndex - 1 + Len(CARD_SEQUENCE)) % Len(CARD_SEQUENCE)
  IN CARD_SEQUENCE[nextIndex + 1]

getNextCardIdInSequence(currentCardId, direction) ==
  LET currentIndex == SequenceIndexOf(currentCardId)
      nextIndex == IF direction = "forward"
                   THEN (currentIndex + 1) % Len(CARD_SEQUENCE)
                   ELSE (currentIndex - 1 + Len(CARD_SEQUENCE)) % Len(CARD_SEQUENCE)
  IN CARD_SEQUENCE[nextIndex + 1]

\* Mutant: the card entering CENTER is not forced to the top rank.
updateZIndexesNoTop(cards, ic, inx, direction) ==
  IF direction = "forward"
  THEN LET shifted == [i \in 1..Len(cards) |-> [cards[i] EXCEPT !.zIndex = @ + 1]]
       IN [shifted EXCEPT ![ic].zIndex = 0]
  ELSE [i \in 1..Len(cards) |-> [cards[i] EXCEPT !.zIndex = @ - 1]]

\* Mutant: the backward update shifts the ranks up, as the forward one does.
updateZIndexesSameShift(cards, ic, inx, direction) ==
  IF direction = "forward"
  THEN LET shifted == [i \in 1..Len(cards) |-> [cards[i] EXCEPT !.zIndex = @ + 1]]
           back == [shifted EXCEPT ![ic].zIndex = 0]
       IN [back EXCEPT ![inx].zIndex = 5]
  ELSE LET shifted == [i \in 1..Len(cards) |-> [cards[i] EXCEPT !.zIndex = @ + 1]]
       IN [shifted EXCEPT ![inx].zIndex = 5]

\* Mutant: the forward update forgets to shift the other cards up.
updateZIndexesNoShift(cards, ic, inx, direction) ==
  IF direction = "forward"
  THEN LET back == [cards EXCEPT ![ic].zIndex = 0]
       IN [back EXCEPT ![inx].zIndex = 5]
  ELSE LET shifted == [i \in 1..Len(cards) |-> [cards[i] EXCEPT !.zIndex = @ - 1]]
       IN [shifted EXCEPT ![inx].zIndex = 5]

\* Mutant: the card leaving CENTER is not sent to the back.
updateZIndexesNoBack(cards, ic, inx, direction) ==
  IF direction = "forward"
  THEN LET shifted == [i \in 1..Len(cards) |-> [cards[i] EXCEPT !.zIndex = @ + 1]]
       IN [shifted EXCEPT ![inx].zIndex = 5]
  ELSE LET shifted == [i \in 1..Len(cards) |-> [cards[i] EXCEPT !.zIndex = @ - 1]]
       IN [shifted EXCEPT ![inx].zIndex = 5]

\* updateZIndexes mutates the cards in place; ic and inx index the card leaving
\* CENTER and the card entering it.
updateZIndexes(cards, ic, inx, direction) ==
  IF direction = "forward"
  THEN LET shifted == [i \in 1..Len(cards) |-> [cards[i] EXCEPT !.zIndex = @ + 1]]
           back == [shifted EXCEPT ![ic].zIndex = 0]
       IN [back EXCEPT ![inx].zIndex = 5]
  ELSE LET shifted == [i \in 1..Len(cards) |-> [cards[i] EXCEPT !.zIndex = @ - 1]]
       IN [shifted EXCEPT ![inx].zIndex = 5]

RECURSIVE MarkMoving(_, _)
MarkMoving(states, movingCardIds) ==
  IF movingCardIds = <<>> THEN states
  ELSE MarkMoving([states EXCEPT ![Head(movingCardIds)] = MOVE_TO_POSITION],
                  Tail(movingCardIds))

buildAnimationStates(flyingCardId, flyDirection, movingCardIds) ==
  LET all == [c \in CardId |-> MOVE_TO_POSITION]
      fly == [all EXCEPT ![flyingCardId] =
                IF flyDirection = "left" THEN FLY_LEFT ELSE FLY_RIGHT]
  IN MarkMoving(fly, movingCardIds)

\* Mutant: the forward rotation exchanges the CENTER card with its successor and
\* leaves the CENTER_BACK card where it is.
forwardPositionsSwapWithNext(newCards, ic, inx, ib) ==
  LET vacatedPosition == newCards[inx].position
      m1 == [newCards EXCEPT ![ic].position = vacatedPosition]
  IN [m1 EXCEPT ![inx].position = CENTER]

\* Mutant: the forward rotation moves the CENTER_BACK card into CENTER instead
\* of the successor of the CENTER card.
forwardPositionsBackToCenter(newCards, ic, inx, ib) ==
  LET vacatedPosition == newCards[inx].position
      m1 == [newCards EXCEPT ![ic].position = vacatedPosition]
      m2 == [m1 EXCEPT ![ib].position = CENTER]
  IN [m2 EXCEPT ![inx].position = CENTER_BACK]

\* Mutant: the CENTER_BACK card is not moved to the vacated slot.
forwardPositionsNoVacate(newCards, ic, inx, ib) ==
  LET m1 == [newCards EXCEPT ![ic].position = CENTER_BACK]
  IN [m1 EXCEPT ![inx].position = CENTER]

\* Step 4 of the forward rotation: three assignments through card references, in
\* source order (ic: the CENTER card, inx: the next card, ib: the CENTER_BACK card).
forwardPositions(newCards, ic, inx, ib) ==
  LET vacatedPosition == newCards[inx].position
      m1 == [newCards EXCEPT ![ic].position = CENTER_BACK]
      m2 == [m1 EXCEPT ![inx].position = CENTER]
  IN [m2 EXCEPT ![ib].position = vacatedPosition]

\* Mutant: the backward rotation exchanges the CENTER card with the target
\* card, two steps back, and leaves the CENTER_BACK card where it is.
backwardPositionsSwapWithTarget(newCards, ic, ib, it) ==
  LET vacatedPosition == newCards[it].position
      m1 == [newCards EXCEPT ![ic].position = vacatedPosition]
  IN [m1 EXCEPT ![it].position = CENTER]

\* Mutant: the backward rotation moves the cards as the forward one does
\* (CENTER card to CENTER_BACK, target card to CENTER).
backwardPositionsAsForward(newCards, ic, ib, it) ==
  LET vacatedPosition == newCards[it].position
      m1 == [newCards EXCEPT ![ic].position = CENTER_BACK]
      m2 == [m1 EXCEPT ![it].position = CENTER]
  IN [m2 EXCEPT ![ib].position = vacatedPosition]

\* Step 4 of the backward rotation (it: the target card, two steps back).
backwardPositions(newCards, ic, ib, it) ==
  LET vacatedPosition == newCards[it].position
      m1 == [newCards EXCEPT ![ic].position = vacatedPosition]
      m2 == [m1 EXCEPT ![ib].position = CENTER]
  IN [m2 EXCEPT ![it].position = CENTER_BACK]

\* What a rotation returns when a lookup throws.
Thrown ==
  [ok |-> FALSE, cardsWithOldZIndex |-> <<>>, cardsWithNewZIndex |-> <<>>,
   animationStates |-> <<>>, flyingCardId |-> "", movingToCenterCardId |-> ""]

\* Mutant: the old-rank snapshot is taken before the slots are reassigned.
executeForwardShuffleSnapshotFirst(currentCards) ==
  LET newCards == currentCards
      ic == IndexAtPosition(newCards, CENTER)
      ib == IndexAtPosition(newCards, CENTER_BACK)
  IN IF ic = 0 \/ ib = 0 THEN Thrown
     ELSE
       LET nextCenterId == getNextCardIdInSequence(newCards[ic].id, "forward")
           inx == IndexOfId(newCards, nextCenterId)
       IN IF inx = 0 THEN Thrown
          ELSE
            LET vacatedPosition == newCards[inx].position
                flyDirection == getPositionConfig(vacatedPosition).flyDirection
                m3 == forwardPositions(newCards, ic, inx, ib)
                withNew == updateZIndexes(m3, ic, inx, "forward")
            IN [ok |-> TRUE,
                cardsWithOldZIndex |-> newCards,
                cardsWithNewZIndex |-> withNew,
                animationStates |->
                  buildAnimationStates(withNew[ic].id, flyDirection,
                                       <<withNew[inx].id, withNew[ib].id>>),
                flyingCardId |-> withNew[ic].id,
                movingToCenterCardId |-> withNew[inx].id]

executeForwardShuffle(currentCards) ==
  LET newCards == currentCards
      ic == IndexAtPosition(newCards, CENTER)
      ib == IndexAtPosition(newCards, CENTER_BACK)
  IN IF ic = 0 \/ ib = 0 THEN Thrown
     ELSE
       LET nextCenterId == getNextCardIdInSequence(newCards[ic].id, "forward")
           inx == IndexOfId(newCards, nextCenterId)
       IN IF inx = 0 THEN Thrown
          ELSE
            LET vacatedPosition == newCards[inx].position
                flyDirection == getPositionConfig(vacatedPosition).flyDirection
                m3 == forwardPositions(newCards, ic, inx, ib)
                withNew == updateZIndexes(m3, ic, inx, "forward")
            IN [ok |-> TRUE,
                cardsWithOldZIndex |-> m3,
                cardsWithNewZIndex |-> withNew,
                animationStates |->
                  buildAnimationStates(withNew[ic].id, flyDirection,
                                       <<withNew[inx].id, withNew[ib].id>>),
                flyingCardId |-> withNew[ic].id,
                movingToCenterCardId |-> withNew[inx].id]

\* Mutant: the target of the backward rotation is one step back, not two.
executeBackwardShuffleOneStep(currentCards) ==
  LET newCards == currentCards
      ic == IndexAtPosition(newCards, CENTER)
      ib == IndexAtPosition(newCards, CENTER_BACK)
  IN IF ic = 0 \/ ib = 0 THEN Thrown
     ELSE
       LET oneStepBackId == getNextCardIdInSequence(newCards[ic].id, "backward")
           it == IndexOfId(newCards, oneStepBackId)
       IN IF it = 0 THEN Thrown
          ELSE
            LET vacatedPosition == newCards[it].position
                flyDirection == getPositionConfig(vacatedPosition).flyDirection
                m3 == backwardPositions(newCards, ic, ib, it)
                withNew == updateZIndexes(m3, ic, ib, "backward")
            IN [ok |-> TRUE,
                cardsWithOldZIndex |-> m3,
                cardsWithNewZIndex |-> withNew,
                animationStates |->
                  buildAnimationStates(withNew[ib].id, flyDirection,
                                       <<withNew[it].id, withNew[ic].id>>),
                flyingCardId |-> withNew[ib].id,
                movingToCenterCardId |-> withNew[ib].id]

executeBackwardShuffle(currentCards) ==
  LET newCards == currentCards
      ic == IndexAtPosition(newCards, CENTER)
      ib == IndexAtPosition(newCards, CENTER_BACK)
  IN IF ic = 0 \/ ib = 0 THEN Thrown
     ELSE
       LET oneStepBackId == getNextCardIdInSequence(newCards[ic].id, "backward")
           twoStepsBackId == getNextCardIdInSequence(oneStepBackId, "backward")
           it == IndexOfId(newCards, twoStepsBackId)
       IN IF it = 0 THEN Thrown
          ELSE
            LET vacatedPosition == newCards[it].position
                flyDirection == getPositionConfig(vacatedPosition).flyDirection
                m3 == backwardPositions(newCards, ic, ib, it)
                withNew == updateZIndexes(m3, ic, ib, "backward")
            IN [ok |-> TRUE,
                cardsWithOldZIndex |-> m3,
                cardsWithNewZIndex |-> withNew,
                animationStates |->
                  buildAnimationStates(withNew[ib].id, flyDirection,
                                       <<withNew[it].id, withNew[ic].id>>),
                flyingCardId |-> withNew[ib].id,
                movingToCenterCardId |-> withNew[ib].id]

\* Mutant: the advanced index is written to photoIndex, the original content.
swapPhotoOnCardIDWrongField(cardId, cards) ==
  LET t == IndexOfId(cards, cardId)
  IN IF t = 0 THEN cards
     ELSE [cards EXCEPT ![t].photoIndex =
                          (cards[t].currentPhotoIndex + 6) % PhotoCount]

\* Mutant: the content index advances by six without wrapping at the pool size.
swapPhotoOnCardIDNoWrap(cardId, cards) ==
  LET t == IndexOfId(cards, cardId)
  IN IF t = 0 THEN cards
     ELSE [cards EXCEPT ![t].currentPhotoIndex = @ + 6]

\* Mutant: the content index advances by one instead of by six.
swapPhotoOnCardIDByOne(cardId, cards) ==
  LET t == IndexOfId(cards, cardId)
  IN IF t = 0 THEN cards
     ELSE [cards EXCEPT ![t].currentPhotoIndex = (@ + 1) % PhotoCount]

swapPhotoOnCardID(cardId, cards) ==
  LET t == IndexOfId(cards, cardId)
  IN IF t = 0 THEN cards
     ELSE [cards EXCEPT ![t].currentPhotoIndex = (@ + 6) % PhotoCount]

\* Mutant: no wrap to the last photo when the center card shows photo 0.
swapPhotoBackShuffleNoWrap(currentCards) ==
  LET ib == IndexAtPosition(currentCards, CENTER_BACK)
      ic == IndexAtPosition(currentCards, CENTER)
  IN IF ic = 0 \/ ib = 0 THEN currentCards
     ELSE [currentCards EXCEPT ![ib].currentPhotoIndex =
                                 currentCards[ic].currentPhotoIndex - 1]

swapPhotoBackShuffle(currentCards) ==
  LET ib == IndexAtPosition(currentCards, CENTER_BACK)
      ic == IndexAtPosition(currentCards, CENTER)
  IN IF ic = 0 \/ ib = 0 THEN currentCards
     ELSE IF currentCards[ic].currentPhotoIndex = 0
          THEN [currentCards EXCEPT ![ib].currentPhotoIndex = PhotoCount - 1]
          ELSE [currentCards EXCEPT ![ib].currentPhotoIndex =
                                      currentCards[ic].currentPhotoIndex - 1]

\* ------------------------------------------------------------------- state

VARIABLES
  cards,                \* useState<Card[]>: the card array the widget renders
  animationStates,      \* useState<CardAnimationMap>
  buttonsDisabled,      \* useState(false): the throttle flag
  isAnimatingRef,       \* useRef(false): the synchronous re-entrancy guard
  isInView,             \* useState(false)
  hasCompletedEntrance, \* useState(false)
  timers,               \* pending setTimeout callbacks, in scheduling order
  shuffles,             \* history: number of accepted triggers so far
  allForward,           \* history: every accepted trigger so far was forward
  hist,                 \* history: the last two accepted triggers
  ev                    \* history: the callback that ran last

vars == <<cards, animationStates, buttonsDisabled, isAnimatingRef, isInView,
          hasCompletedEntrance, timers, shuffles, allForward, hist, ev>>

widget == <<cards, animationStates, buttonsDisabled, isAnimatingRef, timers>>

Uniform(state) == [c \in CardId |-> state]

Init ==
  /\ cards = initializeCards
  /\ animationStates = Uniform(OFFSCREEN)
  /\ buttonsDisabled = FALSE
  /\ isAnimatingRef = FALSE
  /\ isInView = FALSE
  /\ hasCompletedEntrance = FALSE
  /\ timers = <<>>
  /\ shuffles = 0
  /\ allForward = TRUE
  /\ hist = <<>>
  /\ ev = [op |-> "mount", sid |-> 0]

\* ------------------------------------------------------------------ timers

Timer(kind, delay, sid, result) ==
  [kind |-> kind, rem |-> delay, sid |-> sid,
   snapshot |-> result.cardsWithNewZIndex, cardId |-> result.flyingCardId]

\* Mutant: the guard-clearing timer is scheduled after the rotation has been
\* computed, so a rotation that throws leaves no timer behind.
ScheduledByAfterRotation(direction, sid, result) ==
  IF direction = "left"
  THEN IF result.ok
       THEN <<Timer("rank", SHUFFLE_DELAY \div 2, sid, result),
              Timer("unlock", SHUFFLE_DELAY, sid, Thrown)>>
       ELSE <<>>
  ELSE IF result.ok
       THEN <<Timer("rank", SHUFFLE_DELAY, sid, result),
              Timer("unlock", SHUFFLE_DELAY + 100, sid, Thrown),
              Timer("photo", SHUFFLE_DELAY + 100, sid, result)>>
       ELSE <<>>

\* Mutant: the forward handler gives the content timer the shorter delay and
\* the rank timer the longer one.
ScheduledByContentFirst(direction, sid, result) ==
  IF direction = "left"
  THEN <<Timer("unlock", SHUFFLE_DELAY, sid, Thrown)>>
       \o (IF result.ok
           THEN <<Timer("rank", SHUFFLE_DELAY \div 2, sid, result)>>
           ELSE <<>>)
  ELSE <<Timer("unlock", SHUFFLE_DELAY + 100, sid, Thrown)>>
       \o (IF result.ok
           THEN <<Timer("rank", SHUFFLE_DELAY + 100, sid, result),
                  Timer("photo", SHUFFLE_DELAY, sid, result)>>
           ELSE <<>>)

\* The timers one accepted trigger schedules, in the order of its setTimeout calls.
\* A rotation that throws leaves only the guard-clearing timer behind.
ScheduledBy(direction, sid, result) ==
  IF direction = "left"
  THEN <<Timer("unlock", SHUFFLE_DELAY, sid, Thrown)>>
       \o (IF result.ok
           THEN <<Timer("rank", SHUFFLE_DELAY \div 2, sid, result)>>
           ELSE <<>>)
  ELSE <<Timer("unlock", SHUFFLE_DELAY + 100, sid, Thrown)>>
       \o (IF result.ok
           THEN <<Timer("rank", SHUFFLE_DELAY, sid, result),
                  Timer("photo", SHUFFLE_DELAY + 100, sid, result)>>
           ELSE <<>>)

\* The next timer to fire: the earliest due, the first scheduled among equals.
NextDue ==
  LET least == Min({timers[i].rem : i \in 1..Len(timers)})
  IN Min({i \in 1..Len(timers) : timers[i].rem = least})

Without(seq, k) == [i \in 1..(Len(seq) - 1) |-> IF i < k THEN seq[i] ELSE seq[i + 1]]

Push(h, entry) == IF Len(h) < 2 THEN Append(h, entry) ELSE <<h[2], entry>>

\* The history after phase `phase` of shuffle sid has been applied.
Applying(phase, sid) ==
  LET k == Len(hist) - (shuffles - sid)
  IN IF k >= 1 THEN [hist EXCEPT ![k].applied = Append(@, phase)] ELSE hist

\* ----------------------------------------------------------------- actions

\* Mutant: the handler has no re-entrancy check.
BlockedNever == FALSE

Blocked == isAnimatingRef \/ buttonsDisabled

\* handleShuffle: a click on the left (backward) or right (forward) arrow, the
\* number of accepted clicks being capped at `cap`.
handleShuffleUpTo(direction, cap) ==
  IF Blocked
  THEN /\ ev' = [op |-> "reject", sid |-> shuffles]
       /\ UNCHANGED <<cards, animationStates, buttonsDisabled, isAnimatingRef,
                      isInView, hasCompletedEntrance, timers, shuffles,
                      allForward, hist>>
  ELSE /\ shuffles < cap
       /\ LET sid == shuffles + 1
              cardsWithUpdatedPhoto ==
                IF direction = "left" THEN swapPhotoBackShuffle(cards) ELSE cards
              shuffleResult ==
                IF direction = "left"
                THEN executeBackwardShuffle(cardsWithUpdatedPhoto)
                ELSE executeForwardShuffle(cards)
          IN /\ isAnimatingRef' = TRUE
             /\ buttonsDisabled' = TRUE
             /\ timers' = timers \o ScheduledBy(direction, sid, shuffleResult)
             /\ cards' = IF shuffleResult.ok
                         THEN shuffleResult.cardsWithOldZIndex ELSE cards
             /\ animationStates' = IF shuffleResult.ok
                                   THEN shuffleResult.animationStates
                                   ELSE animationStates
             /\ shuffles' = sid
             /\ allForward' = (allForward /\ direction = "right")
             /\ hist' = Push(hist, [dir |-> direction, from |-> cards,
                                    quiet |-> (timers = <<>>),
                                    applied |-> IF shuffleResult.ok
                                                THEN <<0>> ELSE <<>>])
             /\ ev' = [op |-> "accept", sid |-> sid]
       /\ UNCHANGED <<isInView, hasCompletedEntrance>>

handleShuffle(direction) == handleShuffleUpTo(direction, MaxShuffles)

\* Time passes until the next pending timer is due.
Elapse ==
  /\ timers # <<>>
  /\ timers[NextDue].rem > 0
  /\ timers' = [i \in 1..Len(timers) |->
                  [timers[i] EXCEPT !.rem = @ - timers[NextDue].rem]]
  /\ UNCHANGED <<cards, animationStates, buttonsDisabled, isAnimatingRef, isInView,
                 hasCompletedEntrance, shuffles, allForward, hist, ev>>

Due(kind) ==
  /\ timers # <<>>
  /\ timers[NextDue].rem = 0
  /\ timers[NextDue].kind = kind

\* Mutant: the guard-clearing timer re-enables the buttons but leaves the ref set.
FireUnlockKeepsRef ==
  /\ Due("unlock")
  /\ buttonsDisabled' = FALSE
  /\ timers' = Without(timers, NextDue)
  /\ ev' = [op |-> "unlock", sid |-> timers[NextDue].sid]
  /\ UNCHANGED <<cards, animationStates, isAnimatingRef, isInView,
                 hasCompletedEntrance, shuffles, allForward, hist>>

\* setTimeout(() => { setButtonsDisabled(false); isAnimatingRef.current = false })
FireUnlock ==
  /\ Due("unlock")
  /\ buttonsDisabled' = FALSE
  /\ isAnimatingRef' = FALSE
  /\ timers' = Without(timers, NextDue)
  /\ ev' = [op |-> "unlock", sid |-> timers[NextDue].sid]
  /\ UNCHANGED <<cards, animationStates, isInView, hasCompletedEntrance,
                 shuffles, allForward, hist>>

\* setTimeout(() => setCards(shuffleResult.cardsWithNewZIndex))
FireRank ==
  /\ Due("rank")
  /\ cards' = timers[NextDue].snapshot
  /\ timers' = Without(timers, NextDue)
  /\ ev' = [op |-> "rank", sid |-> timers[NextDue].sid]
  /\ hist' = Applying(1, timers[NextDue].sid)
  /\ UNCHANGED <<animationStates, buttonsDisabled, isAnimatingRef, isInView,
                 hasCompletedEntrance, shuffles, allForward>>

\* setTimeout(() => setCards(swapPhotoOnCardID(flyingCardId, cardsWithNewZIndex)))
FirePhoto ==
  /\ Due("photo")
  /\ cards' = swapPhotoOnCardID(timers[NextDue].cardId, timers[NextDue].snapshot)
  /\ timers' = Without(timers, NextDue)
  /\ ev' = [op |-> "photo", sid |-> timers[NextDue].sid]
  /\ hist' = Applying(2, timers[NextDue].sid)
  /\ UNCHANGED <<animationStates, buttonsDisabled, isAnimatingRef, isInView,
                 hasCompletedEntrance, shuffles, allForward>>

\* onViewportEnter, followed by the entrance effect its re-render runs.
onViewportEnter ==
  /\ ~isInView
  /\ isInView' = TRUE
  /\ animationStates' = IF ~hasCompletedEntrance
                        THEN Uniform(ONSCREEN) ELSE animationStates
  /\ ev' = [op |-> "enter", sid |-> shuffles]
  /\ UNCHANGED <<cards, buttonsDisabled, isAnimatingRef, hasCompletedEntrance,
                 timers, shuffles, allForward, hist>>

onViewportLeave ==
  /\ isInView
  /\ isInView' = FALSE
  /\ ev' = [op |-> "leave", sid |-> shuffles]
  /\ UNCHANGED <<cards, animationStates, buttonsDisabled, isAnimatingRef,
                 hasCompletedEntrance, timers, shuffles, allForward, hist>>

\* onAnimationComplete of card i, whose animation toward its current state ended.
onAnimationComplete(i) ==
  /\ animationStates[cards[i].id] # OFFSCREEN
  /\ IF /\ animationStates[cards[i].id] = ONSCREEN
        /\ cards[i].zIndex = 5
        /\ ~hasCompletedEntrance
     THEN /\ hasCompletedEntrance' = TRUE
          /\ animationStates' = Uniform(MOVE_TO_POSITION)
     ELSE UNCHANGED <<hasCompletedEntrance, animationStates>>
  /\ ev' = [op |-> "complete", sid |-> shuffles]
  /\ UNCHANGED <<cards, buttonsDisabled, isAnimatingRef, isInView, timers,
                 shuffles, allForward, hist>>

Next ==
  \/ \E direction \in {"left", "right"} : handleShuffle(direction)
  \/ Elapse
  \/ FireUnlock
  \/ FireRank
  \/ FirePhoto
  \/ onViewportEnter
  \/ onViewportLeave
  \/ \E i \in 1..Len(cards) : onAnimationComplete(i)

Spec == Init /\ [][Next]_vars

\* ------------------------------------------------------ forward clicks only

MaxForwardShuffles == 12

\* The widget under clicks on the right arrow alone, the viewport left aside.
NextForward ==
  \/ handleShuffleUpTo("right", MaxForwardShuffles)
  \/ Elapse
  \/ FireUnlock
  \/ FireRank
  \/ FirePhoto

SpecForward == Init /\ [][NextForward]_vars

\* ------------------------------------------------------- timers that fire

MaxLiveShuffles == 3

NextLive == Next /\ shuffles' <= MaxLiveShuffles

\* A timer set with setTimeout fires once its delay has passed: time does not
\* stop while a timer is pending, and a due callback is run by the event loop.
TimersFire ==
  /\ WF_vars(Elapse)
  /\ WF_vars(FireUnlock)
  /\ WF_vars(FireRank)
  /\ WF_vars(FirePhoto)

SpecLive == Init /\ [][NextLive]_vars /\ TimersFire

\* --------------------------------------------------- arbitrary card arrays

MaxDeckShuffles == 2

\* NavigationButton takes the card array as a prop of type Card[]: nothing in
\* its signature ties the slots or ids to a permutation. The arrays below are
\* the initial deal with the slot or the id of one card overwritten, which
\* yields arrays with a slot empty and another doubled, or an id missing and
\* another doubled, besides the initial deal itself.
AnyDecks ==
  {[initializeCards EXCEPT ![i].position = p] :
     i \in 1..Len(initializeCards), p \in CardPosition}
  \cup {[initializeCards EXCEPT ![i].id = c] :
          i \in 1..Len(initializeCards), c \in CardId}

InitAnyDeck ==
  /\ cards \in AnyDecks
  /\ animationStates = Uniform(OFFSCREEN)
  /\ buttonsDisabled = FALSE
  /\ isAnimatingRef = FALSE
  /\ isInView = FALSE
  /\ hasCompletedEntrance = FALSE
  /\ timers = <<>>
  /\ shuffles = 0
  /\ allForward = TRUE
  /\ hist = <<>>
  /\ ev = [op |-> "mount", sid |-> 0]

NextAnyDeck == Next /\ shuffles' <= MaxDeckShuffles

SpecAnyDeck == InitAnyDeck /\ [][NextAnyDeck]_vars

\* The arrays of AnyDecks in which the center card or the center-back card of
\* the initial deal has been put in another slot, or the successor of the
\* center card has been given another id.
FewDecks ==
  {[initializeCards EXCEPT ![i].position = p] :
     i \in {IndexAtPosition(initializeCards, CENTER),
            IndexAtPosition(initializeCards, CENTER_BACK)},
     p \in CardPosition}
  \cup {[initializeCards EXCEPT ![IndexOfId(initializeCards, CARD_B)].id = c] :
          c \in CardId}

InitFewDecks == InitAnyDeck /\ cards \in FewDecks

SpecFewDecksLive == InitFewDecks /\ [][NextAnyDeck]_vars /\ TimersFire

\* --------------------------------------------------------------- shorthand

Settled == timers = <<>> /\ ~isAnimatingRef /\ ~buttonsDisabled

CardAt(cs, position) == cs[IndexAtPosition(cs, position)]

CardOf(cs, cardId) == cs[IndexOfId(cs, cardId)]

TypeOK ==
  /\ Len(cards) = 6
  /\ \A i \in 1..6 : /\ cards[i].id = CARD_SEQUENCE[i]
                     /\ cards[i].position \in CardPosition
  /\ shuffles \in 0..MaxShuffles

Last(h) == h[Len(h)]

\* The history entry of shuffle sid, one of the last two accepted.
HistOf(sid) == hist[Len(hist) - (shuffles - sid)]

SameSlotsAndRanks(a, b) ==
  /\ Len(a) = Len(b)
  /\ \A i \in 1..Len(a) : /\ a[i].id = b[i].id
                          /\ a[i].position = b[i].position
                          /\ a[i].zIndex = b[i].zIndex

\* ------------------------------------------------------------------ claims

\* C1: in every reachable state the card -> slot mapping is a bijection: each
\* of the six slots is occupied by exactly one of the six cards.
C1_SlotBijection ==
  /\ Len(cards) = 6
  /\ \A p \in CardPosition :
       Cardinality({i \in 1..Len(cards) : cards[i].position = p}) = 1

\* A state between the phases of a later shuffle, after both directions were used.
C1_Witness ==
  /\ ev.op = "rank"
  /\ shuffles >= 3
  /\ ~allForward
  /\ CardAt(cards, CENTER).id # CARD_A

\* C2: pending phase updates (rank snapshot, content update) belong only to the
\* most recently accepted shuffle, so no trigger is accepted while an update of
\* an earlier shuffle is still waiting to be applied.
C2_NoOverlap ==
  \A i \in 1..Len(timers) :
    timers[i].kind \in {"rank", "photo"} => timers[i].sid = shuffles

\* C3: in every settled (Idle) state the card -> rank mapping is a bijection
\* over 0..5 and the card in the center slot has rank 5.
C3_SettledRanks ==
  Settled =>
    /\ \A r \in 0..5 : Cardinality({i \in 1..Len(cards) : cards[i].zIndex = r}) = 1
    /\ \A i \in 1..Len(cards) : cards[i].zIndex \in 0..5
    /\ IndexAtPosition(cards, CENTER) # 0
    /\ CardAt(cards, CENTER).zIndex = 5

\* A settled state after shuffles in both directions.
C3_Witness ==
  /\ Settled
  /\ shuffles >= 3
  /\ ~allForward
  /\ Len(hist) = 2 /\ hist[1].dir # hist[2].dir

\* C4 as stated: after six forward shuffles from the initial state, every card
\* is back in its original slot.
C4_FullCycleAsStated ==
  (allForward /\ shuffles = 6 /\ Settled) =>
    \A i \in 1..Len(cards) : /\ cards[i].id = initializeCards[i].id
                             /\ cards[i].position = initializeCards[i].position

\* C4 as amended: after six forward shuffles from the initial state, cards A
\* and F are back in center and center-back, and the corner cards have
\* exchanged slots in pairs: B with D, and C with E.
C4_HalfCycle ==
  (allForward /\ shuffles = 6 /\ Settled) =>
    /\ CardOf(cards, CARD_A).position = CENTER
    /\ CardOf(cards, CARD_F).position = CENTER_BACK
    /\ CardOf(cards, CARD_B).position = CardOf(initializeCards, CARD_D).position
    /\ CardOf(cards, CARD_D).position = CardOf(initializeCards, CARD_B).position
    /\ CardOf(cards, CARD_C).position = CardOf(initializeCards, CARD_E).position
    /\ CardOf(cards, CARD_E).position = CardOf(initializeCards, CARD_C).position

C4_Witness == allForward /\ shuffles = 6 /\ Settled

\* C5: a forward shuffle started from a settled state and completed, followed
\* by a backward shuffle that is completed too, leaves every card with the slot
\* and the rank it had before the forward shuffle.
C5_ForwardThenBackward ==
  ( /\ Settled
    /\ Len(hist) = 2
    /\ hist[1].dir = "right" /\ hist[1].quiet
    /\ hist[2].dir = "left" /\ hist[2].quiet ) =>
      SameSlotsAndRanks(cards, hist[1].from)

\* The pair forward, backward completed from a state other than the initial one.
C5_Witness ==
  /\ Settled
  /\ Len(hist) = 2
  /\ hist[1].dir = "right" /\ hist[1].quiet
  /\ hist[2].dir = "left" /\ hist[2].quiet
  /\ shuffles >= 3
  /\ CardAt(cards, CENTER).id # CARD_A

\* The rendered card array is one that shuffle sid produced: the callback that
\* ran last is that shuffle's trigger or one of its timers.
ShownFrom(sid) ==
  ev.sid = sid /\ ev.op \in {"accept", "rank", "photo", "unlock"}

Flying == {FLY_LEFT, FLY_RIGHT}

\* C6 as stated: after a backward shuffle, the card then in center-back shows
\* content (oldCenterContent - 1 + poolSize) mod poolSize.
C6_CenterBackAsStated ==
  (hist # <<>> /\ Last(hist).dir = "left" /\ ShownFrom(shuffles)) =>
    CardAt(cards, CENTER_BACK).currentPhotoIndex =
      (CardAt(Last(hist).from, CENTER).currentPhotoIndex - 1 + PhotoCount) % PhotoCount

\* C6 as amended: after a backward shuffle, the card then in center (the card
\* that was in center-back before the shuffle) shows content
\* (oldCenterContent - 1 + poolSize) mod poolSize.
C6_NewCenterContent ==
  (hist # <<>> /\ Last(hist).dir = "left" /\ ShownFrom(shuffles)) =>
    /\ CardAt(cards, CENTER).id = CardAt(Last(hist).from, CENTER_BACK).id
    /\ CardAt(cards, CENTER).currentPhotoIndex =
         (CardAt(Last(hist).from, CENTER).currentPhotoIndex - 1 + PhotoCount) % PhotoCount

\* A completed backward shuffle whose old center card showed photo 0 (the wrap).
C6_Witness ==
  /\ hist # <<>> /\ Last(hist).dir = "left" /\ ShownFrom(shuffles)
  /\ ev.op = "unlock"
  /\ CardAt(Last(hist).from, CENTER).currentPhotoIndex = 0
  /\ CardAt(cards, CENTER).currentPhotoIndex = PhotoCount - 1

\* C7: right after a forward shuffle's phase-2 update, the card in center-back
\* is the card that was in center before that shuffle, its content index is
\* (previous center content + 6) mod 12, and every other card has the content
\* index it had before the shuffle.
C7_ForwardContent ==
  ev.op = "photo" =>
    LET before == HistOf(ev.sid).from
        old == CardAt(before, CENTER)
    IN /\ HistOf(ev.sid).dir = "right"
       /\ CardAt(cards, CENTER_BACK).id = old.id
       /\ CardAt(cards, CENTER_BACK).currentPhotoIndex =
            (old.currentPhotoIndex + 6) % 12
       /\ \A i \in 1..Len(cards) :
            cards[i].id # old.id =>
              cards[i].currentPhotoIndex = CardOf(before, cards[i].id).currentPhotoIndex

\* A phase-2 update that wrapped past the last photo.
C7_Witness ==
  /\ ev.op = "photo"
  /\ CardAt(HistOf(ev.sid).from, CENTER).currentPhotoIndex >= 6
  /\ CardAt(cards, CENTER_BACK).currentPhotoIndex < 6

\* C8: in a backward rotation the card that occupied center before the
\* rotation is the flying card: it is the result's flyingCardId and the one
\* card given a fly-left or fly-right animation state.
C8_CenterCardFlies ==
  (ev.op = "accept" /\ Last(hist).dir = "left") =>
    LET old == CardAt(Last(hist).from, CENTER).id
    IN /\ executeBackwardShuffle(swapPhotoBackShuffle(Last(hist).from)).flyingCardId = old
       /\ animationStates[old] \in Flying
       /\ \A c \in CardId \ {old} : animationStates[c] \notin Flying

\* C9: a trigger fired while the guard flag is set or the buttons are disabled
\* changes neither the card array, nor the animation-state map, nor the guard
\* flag, nor the buttons-disabled flag, nor the pending timers.
C9_BlockedTriggerIsNoOp ==
  [][ ( /\ isAnimatingRef \/ buttonsDisabled
        /\ \E direction \in {"left", "right"} : handleShuffle(direction) )
      => UNCHANGED widget ]_vars

\* A trigger was turned away while a shuffle's timers were pending.
C9_Witness ==
  /\ ev.op = "reject"
  /\ isAnimatingRef
  /\ Len(timers) >= 2

Deck(positions, ranks, photos) ==
  [i \in 1..6 |-> [id |-> CARD_SEQUENCE[i], position |-> positions[i],
                   zIndex |-> ranks[i], photoIndex |-> i - 1,
                   currentPhotoIndex |-> photos[i]]]

C10_Slots == <<CENTER_BACK, CENTER, TOP_RIGHT, BOTTOM_LEFT, BOTTOM_RIGHT, TOP_LEFT>>

Pending(kind, sid) ==
  \E i \in 1..Len(timers) : timers[i].kind = kind /\ timers[i].sid = sid

\* C10: the first trigger being forward, its phase 0 yields A@centerBack,
\* B@center, C@topRight, D@bottomLeft, E@bottomRight, F@topLeft with the initial
\* ranks; its next update sets ranks A:0 B:5 C:4 D:3 E:2 F:1; its last update
\* advances only A's content index, from 0 to 6.
C10_FirstForward ==
  /\ (ev = [op |-> "accept", sid |-> 1] /\ hist[1].dir = "right") =>
       /\ hist[1].from = initializeCards
       /\ cards = Deck(C10_Slots, <<5, 4, 3, 2, 1, 0>>, <<0, 1, 2, 3, 4, 5>>)
       /\ Pending("rank", 1) /\ Pending("photo", 1)
  /\ (ev = [op |-> "rank", sid |-> 1] /\ hist[1].dir = "right") =>
       /\ cards = Deck(C10_Slots, <<0, 5, 4, 3, 2, 1>>, <<0, 1, 2, 3, 4, 5>>)
       /\ ~Pending("rank", 1) /\ Pending("photo", 1)
  /\ (ev = [op |-> "photo", sid |-> 1] /\ hist[1].dir = "right") =>
       /\ cards = Deck(C10_Slots, <<0, 5, 4, 3, 2, 1>>, <<6, 1, 2, 3, 4, 5>>)
       /\ ~Pending("rank", 1) /\ ~Pending("photo", 1)

\* The first forward shuffle ran to its last update and the widget unlocked.
C10_Witness ==
  /\ ev = [op |-> "photo", sid |-> 1]
  /\ shuffles = 1 /\ allForward
  /\ Settled
  /\ CardOf(cards, CARD_A).currentPhotoIndex = 6

\* The ids of the cards whose slot differs between two arrays.
Moved(before, after) ==
  {before[i].id : i \in {j \in 1..Len(before) : before[j].position # after[j].position}}

\* C11: a forward rotation from a settled state changes the slot of exactly
\* three cards: the card that was in center goes to center-back, its successor
\* in the fixed cyclic order goes to center, and the card that was in
\* center-back goes to the slot the successor left.
C11_ForwardThreeWay ==
  (ShownFrom(shuffles) /\ hist # <<>> /\ Last(hist).dir = "right" /\ Last(hist).quiet) =>
    LET before == Last(hist).from
        c0 == CardAt(before, CENTER).id
        cb == CardAt(before, CENTER_BACK).id
        c1 == CARD_SEQUENCE[((SequenceIndexOf(c0) + 1) % Len(CARD_SEQUENCE)) + 1]
    IN /\ CardOf(cards, c0).position = CENTER_BACK
       /\ CardOf(cards, c1).position = CENTER
       /\ CardOf(cards, cb).position = CardOf(before, c1).position
       /\ Moved(before, cards) = {c0, c1, cb}
       /\ Cardinality({c0, c1, cb}) = 3

\* A forward rotation from a settled state in which the cards had been rotated
\* both ways, so that the successor sat in a slot other than its first one.
C11_Witness ==
  /\ ev.op = "accept" /\ shuffles >= 3 /\ ~allForward
  /\ Last(hist).dir = "right" /\ Last(hist).quiet
  /\ CardAt(Last(hist).from, CENTER).id # CARD_A
  /\ Cardinality(Moved(Last(hist).from, cards)) = 3

\* C12: in a backward shuffle the card that was in center moves to center-back,
\* and the card that becomes the new center moves in from some other slot.
C12_BackwardCenterToBack ==
  (ShownFrom(shuffles) /\ hist # <<>> /\ Last(hist).dir = "left") =>
    LET before == Last(hist).from
        c0 == CardAt(before, CENTER).id
        incoming == CardAt(cards, CENTER).id
    IN /\ CardOf(cards, c0).position = CENTER_BACK
       /\ CardOf(before, incoming).position # CENTER

\* The phases a shuffle of the given direction goes through.
PhasesOf(direction) == IF direction = "right" THEN <<0, 1, 2>> ELSE <<0, 1>>

\* The shuffle number of the k-th entry of hist.
SidOf(k) == shuffles - (Len(hist) - k)

\* C13: within one accepted shuffle the updates are applied in strictly
\* increasing phase order (0, then 1, then for a forward shuffle 2), none twice
\* and none skipped: the phases applied so far are a non-empty prefix of the
\* shuffle's phases, each missing phase still has its timer pending, and a
\* settled widget has applied them all.
C13_PhaseOrder ==
  \A k \in 1..Len(hist) :
    LET h == hist[k]
        all == PhasesOf(h.dir)
    IN /\ Len(h.applied) \in 1..Len(all)
       /\ h.applied = SubSeq(all, 1, Len(h.applied))
       /\ Pending("rank", SidOf(k)) <=> Len(h.applied) < 2
       /\ Pending("photo", SidOf(k)) <=> (h.dir = "right" /\ Len(h.applied) < 3)
       /\ Settled => h.applied = all

\* A forward and a backward shuffle have both run through all their phases.
C13_Witness ==
  /\ Len(hist) = 2
  /\ hist[1].dir = "right" /\ hist[1].applied = <<0, 1, 2>>
  /\ hist[2].dir = "left" /\ hist[2].applied = <<0, 1>>
  /\ Settled

\* Two card arrays agree on everything but rank.
AgreeButRank(a, b) ==
  /\ Len(a) = Len(b)
  /\ \A i \in 1..Len(a) : /\ a[i].id = b[i].id
                          /\ a[i].position = b[i].position
                          /\ a[i].photoIndex = b[i].photoIndex
                          /\ a[i].currentPhotoIndex = b[i].currentPhotoIndex

\* The rank snapshot the most recent trigger left with its rank timer.
RankSnapshot ==
  LET i == CHOOSE j \in 1..Len(timers) :
             timers[j].kind = "rank" /\ timers[j].sid = shuffles
  IN timers[i].snapshot

\* C14: the two snapshots a rotation returns, cardsWithOldZIndex and
\* cardsWithNewZIndex, agree on every card's id, slot, original content index
\* and current content index, for the forward and for the backward rotation of
\* every array the widget holds; right after a trigger the array shown and the
\* snapshot kept for the rank update agree in the same way.
C14_SnapshotsDifferInRankOnly ==
  LET forward == executeForwardShuffle(cards)
      backward == executeBackwardShuffle(swapPhotoBackShuffle(cards))
  IN /\ forward.ok /\ backward.ok
     /\ AgreeButRank(forward.cardsWithOldZIndex, forward.cardsWithNewZIndex)
     /\ AgreeButRank(backward.cardsWithOldZIndex, backward.cardsWithNewZIndex)
     /\ ev.op = "accept" =>
          /\ Pending("rank", shuffles)
          /\ AgreeButRank(cards, RankSnapshot)

\* A backward trigger following a forward one has just been accepted, and the
\* snapshot kept for its rank update differs from the array shown.
C14_Witness ==
  /\ ev.op = "accept" /\ Len(hist) = 2
  /\ hist[1].dir = "right" /\ hist[2].dir = "left"
  /\ Pending("rank", shuffles)
  /\ RankSnapshot # cards
  /\ AgreeButRank(cards, RankSnapshot)

NoCardAt(cs, position) == \A i \in 1..Len(cs) : cs[i].position # position

\* C15: when no card occupies center or no card occupies center-back, the
\* forward and the backward rotation fail with a lookup error, and an accepted
\* trigger leaves the card array and the animation-state map as they were.
C15_FailedRotationLeavesArray ==
  [][ (NoCardAt(cards, CENTER) \/ NoCardAt(cards, CENTER_BACK)) =>
        /\ ~executeForwardShuffle(cards).ok
        /\ ~executeBackwardShuffle(swapPhotoBackShuffle(cards)).ok
        /\ shuffles' = shuffles + 1 =>
             /\ cards' = cards
             /\ animationStates' = animationStates ]_vars

\* A trigger was accepted on an array with nobody in center-back, after the
\* entrance had replaced the initial animation states.
C15_Witness ==
  /\ ev.op = "accept"
  /\ NoCardAt(Last(hist).from, CENTER_BACK)
  /\ ~NoCardAt(Last(hist).from, CENTER)
  /\ cards = Last(hist).from
  /\ animationStates = Uniform(MOVE_TO_POSITION)
  /\ isAnimatingRef

\* C16: a lookup miss in any step of a shuffle is surfaced as an error and never
\* silently ignored: a rotation that misses a card fails, and a content-swap
\* step that misses a card (no card of the given id, or nobody in center or
\* center-back) does not return normally with the array left as it was.
C16_MissSurfaced ==
  /\ (NoCardAt(cards, CENTER) \/ NoCardAt(cards, CENTER_BACK)) =>
       /\ ~executeForwardShuffle(cards).ok
       /\ ~executeBackwardShuffle(cards).ok
       /\ swapPhotoBackShuffle(cards) # cards
  /\ \A c \in CardId :
       (\A i \in 1..Len(cards) : cards[i].id # c) => swapPhotoOnCardID(c, cards) # cards

\* C17: every accepted trigger is eventually followed, timers firing, by a state
\* in which the guard flag and buttonsDisabled are both clear, so that a new
\* trigger would be accepted: the widget never stays locked forever.
C17_EventuallyIdle == Blocked ~> (~isAnimatingRef /\ ~buttonsDisabled)

\* The widget has unlocked after its second accepted trigger.
C17_Witness ==
  /\ ev = [op |-> "unlock", sid |-> 2]
  /\ ~isAnimatingRef /\ ~buttonsDisabled
  /\ hist[1].applied # <<>>

\* C18: the animation-state map a rotation produces has one entry for each of
\* the six card ids; exactly one card flies, with fly-left or fly-right as
\* configured for the slot vacated by the incoming card (the card that enters
\* center), and the other five cards have move-to-position.
C18_OneFlyingCard ==
  (ev.op = "accept") =>
    LET before == Last(hist).from
        incoming == CardAt(cards, CENTER).id
        vacated == CardOf(before, incoming).position
        exit == IF FlyDirectionOf(vacated) = "left" THEN FLY_LEFT ELSE FLY_RIGHT
        flying == {c \in CardId : animationStates[c] \in Flying}
    IN /\ DOMAIN animationStates = CardId
       /\ Cardinality(flying) = 1
       /\ \A c \in flying : animationStates[c] = exit
       /\ \A c \in CardId \ flying : animationStates[c] = MOVE_TO_POSITION

\* C20: in every reachable state every card's current content index lies in
\* 0 .. PhotoCount - 1, so getPhotoData never receives a negative or
\* out-of-pool index.
C20_ContentIndexInPool ==
  \A i \in 1..Len(cards) : cards[i].currentPhotoIndex \in 0..(PhotoCount - 1)

\* Both wraps have happened to one card: a backward update from content 0 had
\* put it on the last photo, and the forward update just applied took it past
\* the end of the pool, back to photo 5.
C20_Witness ==
  /\ ev = [op |-> "photo", sid |-> shuffles]
  /\ Last(hist).dir = "right"
  /\ LET c0 == CardAt(Last(hist).from, CENTER).id
     IN /\ CardOf(Last(hist).from, c0).currentPhotoIndex = PhotoCount - 1
        /\ CardOf(cards, c0).currentPhotoIndex = 5

\* The fields of a card.
CardFields == {"id", "position", "zIndex", "photoIndex", "currentPhotoIndex"}

\* An array holds the six cards of the initial deal, each with its original
\* content index.
SameCards(cs) ==
  /\ Len(cs) = Len(initializeCards)
  /\ {cs[i].id : i \in 1..Len(cs)} = CardId
  /\ \A i \in 1..Len(cs) :
       /\ DOMAIN cs[i] = CardFields
       /\ cs[i].photoIndex = CardOf(initializeCards, cs[i].id).photoIndex

\* C21: across any sequence of triggers and timer firings the set of card ids
\* stays {A, B, C, D, E, F} and every card keeps its original content index
\* (photoIndex), in the array shown and in every snapshot a timer still holds.
C21_CardsPersist ==
  /\ SameCards(cards)
  /\ \A i \in 1..Len(timers) :
       timers[i].kind \in {"rank", "photo"} => SameCards(timers[i].snapshot)

\* After shuffles in both directions every card has left its first slot, has a
\* rank other than its first one, and some card shows another photo.
C21_Witness ==
  /\ Settled /\ ~allForward /\ shuffles >= 3
  /\ \A i \in 1..Len(cards) :
       /\ cards[i].position # initializeCards[i].position
       /\ cards[i].zIndex # initializeCards[i].zIndex
  /\ \E i \in 1..Len(cards) : cards[i].currentPhotoIndex # cards[i].photoIndex

\* C22: the after-rank snapshot is the before-rank snapshot shifted and then
\* forced. Forward: every rank is the old rank + 1, except that the card that
\* left center gets 0 and the card that entered center gets 5. Backward: every
\* rank is the old rank - 1, except that the card that entered center gets 5.
C22_ShiftThenForce ==
  (ev.op = "accept") =>
    LET old == cards
        new == RankSnapshot
        left == CardAt(Last(hist).from, CENTER).id
        entered == CardAt(old, CENTER).id
    IN /\ Pending("rank", shuffles)
       /\ \A i \in 1..Len(old) :
            new[i].zIndex =
              IF Last(hist).dir = "right"
              THEN IF old[i].id = entered THEN 5
                   ELSE IF old[i].id = left THEN 0
                   ELSE old[i].zIndex + 1
              ELSE IF old[i].id = entered THEN 5
                   ELSE old[i].zIndex - 1

\* A backward trigger was accepted after two forward ones: the snapshot held
\* for its rank update has the old center card one rank down, at 4.
C22_Witness ==
  /\ ev.op = "accept" /\ shuffles = 3
  /\ Last(hist).dir = "left" /\ hist[1].dir = "right"
  /\ Pending("rank", shuffles)
  /\ CardOf(RankSnapshot, CardAt(Last(hist).from, CENTER).id).zIndex = 4
  /\ CardAt(RankSnapshot, CENTER).zIndex = 5

\* The id that comes before the given one in the cycle A, B, C, D, E, F, A.
PredecessorOf(cardId) ==
  CARD_SEQUENCE[((SequenceIndexOf(cardId) + Len(CARD_SEQUENCE) - 1) % Len(CARD_SEQUENCE)) + 1]

\* C23: after a backward shuffle from a settled state the card in center is the
\* one whose id comes immediately before the old center card's id in the cycle
\* A, B, C, D, E, F, A (F before A).
C23_BackwardBringsPredecessor ==
  (ShownFrom(shuffles) /\ hist # <<>> /\ Last(hist).dir = "left" /\ Last(hist).quiet) =>
    CardAt(cards, CENTER).id = PredecessorOf(CardAt(Last(hist).from, CENTER).id)

\* Two backward shuffles from the initial state have completed: F came before
\* A into center, and E before F.
C23_Witness ==
  /\ Settled /\ shuffles = 2
  /\ hist[1].dir = "left" /\ hist[2].dir = "left" /\ hist[2].quiet
  /\ CardAt(hist[2].from, CENTER).id = CARD_F
  /\ CardAt(cards, CENTER).id = CARD_E

\* In an array the card in center-back is the predecessor of the card in center.
BackPrecedesCenter(cs) ==
  /\ ~NoCardAt(cs, CENTER) /\ ~NoCardAt(cs, CENTER_BACK)
  /\ CardAt(cs, CENTER_BACK).id = PredecessorOf(CardAt(cs, CENTER).id)

\* C24: in every reachable card array, shown or held by a pending timer,
\* settled or between phases, the card in center-back is the one whose id comes
\* immediately before the center card's id in the cycle; hence every rotation
\* moves three distinct cards.
C24_BackPrecedesCenter ==
  /\ BackPrecedesCenter(cards)
  /\ \A i \in 1..Len(timers) :
       timers[i].kind \in {"rank", "photo"} => BackPrecedesCenter(timers[i].snapshot)
  /\ ev.op = "accept" => Cardinality(Moved(Last(hist).from, cards)) = 3

\* Between the phases of a forward shuffle that followed a backward one, with
\* cards other than A and F in center and center-back.
C24_Witness ==
  /\ ev.op = "rank" /\ Len(hist) = 2
  /\ hist[1].dir = "left" /\ hist[2].dir = "right"
  /\ Len(timers) >= 1
  /\ CardAt(cards, CENTER).id \notin {CARD_A, CARD_F}
  /\ CardAt(cards, CENTER_BACK).id \notin {CARD_A, CARD_F}

\* C25: each completed forward shuffle makes the center slot show content
\* (previous center content + 1) mod PhotoCount and each completed backward
\* shuffle (previous center content - 1) mod PhotoCount, for any mix of forward
\* and backward shuffles from the initial state.
C25_CenterContentSteps ==
  (Settled /\ hist # <<>>) =>
    LET previous == CardAt(Last(hist).from, CENTER).currentPhotoIndex
        step == IF Last(hist).dir = "right" THEN 1 ELSE PhotoCount - 1
    IN CardAt(cards, CENTER).currentPhotoIndex = (previous + step) % PhotoCount

\* The id k steps after the given one in the cycle A, B, C, D, E, F, A.
StepsAfter(cardId, k) ==
  CARD_SEQUENCE[((SequenceIndexOf(cardId) + k) % Len(CARD_SEQUENCE)) + 1]

\* C26: in every reachable settled state the six current content indices are
\* pairwise distinct; precisely, the card k steps after the center card in the
\* cycle (k = 0..5) shows content (center content + k) mod PhotoCount.
C26_ContentsFollowCycle ==
  Settled =>
    LET center == CardAt(cards, CENTER)
    IN /\ \A k \in 0..5 :
            CardOf(cards, StepsAfter(center.id, k)).currentPhotoIndex =
              (center.currentPhotoIndex + k) % PhotoCount
       /\ Cardinality({cards[i].currentPhotoIndex : i \in 1..Len(cards)}) = 6

\* The ranks of an array are a bijection onto 0..5.
RanksBijective(cs) ==
  /\ {cs[i].zIndex : i \in 1..Len(cs)} = 0..5
  /\ Len(cs) = 6

\* C27: every card array applied to the widget state, the phase-0 array shown
\* between phase 0 and phase 1 included, and every snapshot a timer is about to
\* apply, has ranks forming a bijection onto 0..5: no two cards ever share a rank.
C27_RanksBijective ==
  /\ RanksBijective(cards)
  /\ \A i \in 1..Len(timers) :
       timers[i].kind \in {"rank", "photo"} => RanksBijective(timers[i].snapshot)

\* Between phase 0 and phase 1 of a backward shuffle that followed a forward
\* one: the new center card is shown with the bottom rank it had in center-back.
C27_Witness ==
  /\ ev.op = "accept" /\ Len(hist) = 2
  /\ hist[1].dir = "right" /\ hist[2].dir = "left"
  /\ Pending("rank", shuffles)
  /\ CardAt(cards, CENTER).zIndex = 0
  /\ CardAt(timers[Len(timers)].snapshot, CENTER).zIndex = 5

\* C28: twelve completed forward shuffles from the initial state return the
\* whole card array to the initial state: every card's slot, rank and current
\* content index equal their initial values.
C28_TwelveForwardsRestore ==
  (shuffles = 12 /\ allForward /\ Settled) => cards = initializeCards

\* The trigger accepted last found no card to rotate: its rotation threw.
RotationFailed == hist # <<>> /\ Last(hist).applied = <<>>

\* C29: the guard-clearing timer is scheduled before the rotation is computed,
\* so when the rotation throws after the trigger was accepted, the guard flag
\* and buttonsDisabled are set, the guard-clearing timer is pending, and both
\* flags are eventually cleared: the widget is not locked out for good.
C29_FailedTriggerUnlocks ==
  /\ [](RotationFailed /\ ev.op = "accept" =>
          /\ isAnimatingRef /\ buttonsDisabled
          /\ Pending("unlock", shuffles))
  /\ (RotationFailed /\ Blocked) ~> (~isAnimatingRef /\ ~buttonsDisabled)

\* After a trigger whose rotation threw, the widget unlocked and accepted the
\* next trigger, whose rotation threw as well.
C29_Witness ==
  /\ ev = [op |-> "accept", sid |-> 2]
  /\ Len(hist) = 2
  /\ hist[1].applied = <<>> /\ hist[2].applied = <<>>
  /\ hist[2].quiet
  /\ cards = hist[1].from

Corners == {TOP_LEFT, TOP_RIGHT, BOTTOM_LEFT, BOTTOM_RIGHT}

\* The slot whose exit direction the rotation accepted last has used: the slot
\* left by the card that went to center (forward) or to center-back (backward).
VacatedSlot ==
  LET before == Last(hist).from
      slot == IF Last(hist).dir = "right" THEN CENTER ELSE CENTER_BACK
      movers == {i \in 1..Len(cards) :
                   cards[i].position = slot /\ before[i].position # slot}
  IN {before[i].position : i \in movers}

\* C30: in every rotation from a settled state the slot vacated by the incoming
\* card (forward) or by the target card (backward), whose exit direction the
\* flying card is given, is one of the four corner slots, never center or
\* center-back.
C30_VacatedSlotIsCorner ==
  (ev.op = "accept" /\ Last(hist).quiet) =>
    /\ Cardinality(VacatedSlot) = 1
    /\ VacatedSlot \subseteq Corners
    /\ \A c \in CardId :
         animationStates[c] \in Flying =>
           \A p \in VacatedSlot :
             animationStates[c] = IF FlyDirectionOf(p) = "left" THEN FLY_LEFT ELSE FLY_RIGHT

\* A backward rotation from a settled state whose target card sat in a corner
\* with exit direction left, after rotations in both directions.
C30_Witness ==
  /\ ev.op = "accept" /\ Last(hist).quiet /\ shuffles >= 3 /\ ~allForward
  /\ Last(hist).dir = "left"
  /\ VacatedSlot \subseteq {TOP_LEFT, BOTTOM_LEFT}
  /\ \E c \in CardId : animationStates[c] = FLY_LEFT

====
